---- MODULE Spec2Model ----
(***************************************************************************)
(* Root-parallel Monte Carlo tree search of the NoGo player                *)
(* (TCG_project3/global_early_exit_heuristic_opening_tournament/agent.h,   *)
(* built with ParallelAverageSelection).                                   *)
(*                                                                         *)
(* The board rules (board.h) are not part of the sources at hand: the      *)
(* board is modelled from the GameState capability of the specification    *)
(* and the NoGo rules (a stone may be placed on an empty cell when neither *)
(* its own block nor an adjacent opposing block is left without liberty).  *)
(* The grid is a single row of NumCells cells instead of the 9 x 9 grid.   *)
(***************************************************************************)
EXTENDS Integers, Sequences, FiniteSets, TLC

\* ---------------------------------------------------------------- bounds
\* number of grid cells (the code's literal 81, board::size_x * size_y)
NumCells == 4
\* largest iteration budget N (meta["N"]) drawn for a decide call
MaxBudget == 6
\* largest number of processors reported by omp_get_num_procs()
MaxThreads == 2
\* most empty cells of a board searched by more than one thread
MaxSharedEmpty == 2
\* checkpoint granule of the scaled search (stands for the code's 1000)
ScaledUnit == 2
\* largest seed of meta["seed"] and largest time(NULL) drawn
MaxSeed == 2
\* most turns of an MCTS call followed step by step
MaxCycles == 7
\* checkpoint granule of the coarse search: budgets below it have a first
\* pass of at least one turn, as the budgets 4 .. 999 of the code have
CoarseUnit == 5

\* ------------------------------------------------------ program constants
\* int split = N / 1000;
CheckpointUnit == 1000

Cells == 0 .. (NumCells - 1)
Workers == 1 .. MaxThreads

\* ------------------------------------------------------------- the board
\* a board is [grid, who]: the cells (board::piece_type) and
\* info().who_take_turns
Opponent(who) == IF who = "black" THEN "white" ELSE "black"

Neighbours(c) == {d \in Cells : d = c - 1 \/ d = c + 1}

\* the block of same-coloured stones connected to the cells of block
RECURSIVE Flood(_, _, _)
Flood(grid, colour, block) ==
    LET next == block \cup {d \in Cells : /\ grid[d] = colour
                                          /\ \E e \in block : d \in Neighbours(e)}
    IN  IF next = block THEN block ELSE Flood(grid, colour, next)

\* number of empty cells adjacent to the block of the stone at c
Liberty(grid, c) ==
    LET block == Flood(grid, grid[c], {c})
    IN  Cardinality({d \in Cells : /\ grid[d] = "empty"
                                   /\ \E e \in block : d \in Neighbours(e)})

\* board::place(i) by the player to move: the move result
PlaceResult(b, pos) ==
    IF b.grid[pos] # "empty" THEN "illegal_not_empty"
    ELSE LET g == [b.grid EXCEPT ![pos] = b.who]
         IN  IF Liberty(g, pos) = 0 THEN "illegal_suicide"
             ELSE IF \E d \in Neighbours(pos) :
                        g[d] = Opponent(b.who) /\ Liberty(g, d) = 0
                  THEN "illegal_take"
                  ELSE "legal"

IsLegal(b, pos) == PlaceResult(b, pos) = "legal"

\* board::place(i): the board after the call (unchanged when not legal)
Place(b, pos) ==
    IF IsLegal(b, pos)
    THEN [grid |-> [b.grid EXCEPT ![pos] = b.who], who |-> Opponent(b.who)]
    ELSE b

LegalMoves(b) == {pos \in Cells : IsLegal(b, pos)}

EmptyBoard == [grid |-> [c \in Cells |-> "empty"], who |-> "black"]

\* every position of a game played by the rules from the empty board
RECURSIVE Positions(_)
Positions(frontier) ==
    LET next == frontier \cup {Place(b, pos) : b \in frontier, pos \in Cells}
    IN  IF next = frontier THEN frontier ELSE Positions(next)

ReachableBoards == Positions({EmptyBoard})

\* ---------------------------------------------------------- the search tree
\* A tree is a function from paths to nodes.  A path is the sequence of moves
\* from the root, so the root is <<>>, node::parent of p is Parent(p) and
\* the child of p under key k is Append(p, k).  A node is
\* [board, place_pos, win_cnt, total_cnt, child]; child lists the keys of
\* node::child in the iteration order of the unordered_map.
NoMove == -1

Parent(p) == SubSeq(p, 1, Len(p) - 1)

IsPrefix(p, q) == Len(p) <= Len(q) /\ SubSeq(q, 1, Len(p)) = p

SeqToSet(s) == {s[k] : k \in 1 .. Len(s)}

\* node(const board& state, int m = -1)
NewNode(b, m) ==
    [board |-> b, place_pos |-> m, win_cnt |-> 0, total_cnt |-> 0, child |-> <<>>]

NewTree(b) == [p \in {<<>>} |-> NewNode(b, NoMove)]

\* round(10000 * ln p): std::log(parent->total_cnt)
LnTable ==
    <<0, 6931, 10986, 13863, 16094, 17918, 19459, 20794, 21972, 23026, 23979, 24849>>

RECURSIVE IsqrtIn(_, _, _)
IsqrtIn(x, lo, hi) ==
    IF lo >= hi THEN lo
    ELSE LET mid == (lo + hi + 1) \div 2
         IN  IF mid * mid <= x THEN IsqrtIn(x, mid, hi) ELSE IsqrtIn(x, lo, mid - 1)

\* floor of the square root
Isqrt(x) == IsqrtIn(x, 0, 20000)

\* node::win_rate, in units of 1/10000
win_rate(n) ==
    IF n.total_cnt = 0 THEN 0 ELSE (n.win_cnt * 10000) \div n.total_cnt

\* node::ucb of the node at path p, in units of 1/10000; c is the exploration
\* constant in units of 1/1000.  The fixed-point value orders any two
\* siblings as the float value does for parent visit counts up to 12.
ucb(tree, p, c) ==
    LET n == tree[p]
        par == tree[Parent(p)]
    IN  IF par.total_cnt = 0 \/ n.total_cnt = 0
        THEN win_rate(n)
        ELSE win_rate(n)
             + (c * Isqrt((LnTable[par.total_cnt] * 10000) \div n.total_cnt)) \div 1000

\* node::is_leaf: not fully expanded, or no legal move
is_leaf(n) ==
    LET cnt == Cardinality(LegalMoves(n.board))
    IN  ~(cnt > 0 /\ Len(n.child) = cnt)

\* ScanChildren with tmp >= max_score: the last child with the greatest score
RECURSIVE ScanChildrenLast(_, _, _, _, _, _)
ScanChildrenLast(tree, p, c, k, max_score, best) ==
    IF k > Len(tree[p].child) THEN best
    ELSE LET q == Append(p, tree[p].child[k])
             tmp == ucb(tree, q, c)
         IN  IF k = 1 \/ tmp >= max_score
             THEN ScanChildrenLast(tree, p, c, k + 1, tmp, q)
             ELSE ScanChildrenLast(tree, p, c, k + 1, max_score, best)

\* the loop over curr->child of select_root_to_leaf: the first child in
\* iteration order whose score is greater than every score before it
RECURSIVE ScanChildren(_, _, _, _, _, _)
ScanChildren(tree, p, c, k, max_score, best) ==
    IF k > Len(tree[p].child) THEN best
    ELSE LET q == Append(p, tree[p].child[k])
             tmp == ucb(tree, q, c)
         IN  IF k = 1 \/ tmp > max_score
             THEN ScanChildren(tree, p, c, k + 1, tmp, q)
             ELSE ScanChildren(tree, p, c, k + 1, max_score, best)

RECURSIVE Descend(_, _, _)
Descend(tree, p, c) ==
    IF is_leaf(tree[p]) \/ Len(tree[p].child) = 0 THEN p
    ELSE Descend(tree, ScanChildren(tree, p, c, 1, 0, p), c)

\* node::select_root_to_leaf: the last node of the returned vector; the
\* vector holds the nodes at the prefixes of this path, root first
select_root_to_leaf(tree, c) == Descend(tree, <<>>, c)

\* node::all_space: the cells in an order shuffled by the engine
all_space ==
    {vec \in [1 .. NumCells -> Cells] : \A c \in Cells : \E k \in 1 .. NumCells : vec[k] = c}

\* FirstNewMove without the test b.place(vec[i]) == board::legal
RECURSIVE FirstNewCell(_, _, _)
FirstNewCell(n, vec, i) ==
    IF i > Len(vec) THEN NoMove
    ELSE IF vec[i] \notin SeqToSet(n.child)
         THEN vec[i]
         ELSE FirstNewCell(n, vec, i + 1)

\* FirstNewMove without the test child.count(vec[i]) == 0
RECURSIVE FirstLegalMove(_, _, _)
FirstLegalMove(n, vec, i) ==
    IF i > Len(vec) THEN NoMove
    ELSE IF IsLegal(n.board, vec[i])
         THEN vec[i]
         ELSE FirstLegalMove(n, vec, i + 1)

\* the position expand_from_leaf settles on: the first cell of vec that is
\* legal and is no key of child, NoMove when there is none
RECURSIVE FirstNewMove(_, _, _)
FirstNewMove(n, vec, i) ==
    IF i > Len(vec) THEN NoMove
    ELSE IF IsLegal(n.board, vec[i]) /\ vec[i] \notin SeqToSet(n.child)
         THEN vec[i]
         ELSE FirstNewMove(n, vec, i + 1)

\* this->child[pos] = new_node: a key hashed to an empty bucket is linked at
\* the head of the map's element list, so it comes first in iteration order
InsertChild(order, pos) == <<pos>> \o order

\* node::expand_from_leaf on the node at p with shuffled cells vec:
\* [tree, node], the tree after the call and the path of the returned node
expand_from_leaf(tree, p, vec) ==
    LET pos == FirstNewMove(tree[p], vec, 1)
    IN  IF pos # NoMove
        THEN LET q == Append(p, pos)
             IN  [tree |-> [r \in DOMAIN tree \cup {q} |->
                              IF r = q THEN NewNode(Place(tree[p].board, pos), pos)
                              ELSE IF r = p
                                   THEN [tree[p] EXCEPT !.child = InsertChild(@, pos)]
                                   ELSE tree[r]],
                  node |-> q]
        ELSE [tree |-> tree, node |-> p]

\* rollout_step without cnt++ after a failed placement
rollout_step_no_count(r) ==
    LET i == Head(r.q)
    IN  IF ~IsLegal(r.b, i)
        THEN [b |-> r.b, q |-> Append(Tail(r.q), i), cnt |-> r.cnt,
              tries |-> r.tries + 1]
        ELSE [b |-> Place(r.b, i), q |-> Tail(r.q), cnt |-> 0,
              tries |-> r.tries + 1]

\* one turn of the while loop of simulate_winner: r is [b, q, cnt, tries],
\* tries counting the calls of b.place
rollout_step(r) ==
    LET i == Head(r.q)
    IN  IF ~IsLegal(r.b, i)
        THEN [b |-> r.b, q |-> Append(Tail(r.q), i), cnt |-> r.cnt + 1,
              tries |-> r.tries + 1]
        ELSE [b |-> Place(r.b, i), q |-> Tail(r.q), cnt |-> 0,
              tries |-> r.tries + 1]

\* rollout_done leaving the loop at the first failed placement
rollout_done_first_failure(r) == r.cnt >= 1 \/ Len(r.q) = 0

\* while(cnt != q.size())
rollout_done(r) == r.cnt = Len(r.q)

rollout_start(b, vec) == [b |-> b, q |-> vec, cnt |-> 0, tries |-> 0]

RECURSIVE rollout_run(_)
rollout_run(r) == IF rollout_done(r) THEN r ELSE rollout_run(rollout_step(r))

\* the value simulate_winner returns for the final board
rollout_winner(r) == IF r.b.who = "white" THEN "black" ELSE "white"

\* node::simulate_winner from board b with shuffled cells vec
simulate_winner(b, vec) == rollout_winner(rollout_run(rollout_start(b, vec)))

\* back_propagate with the loop reaching the last node of the path only
back_propagate_leaf_only(tree, leaf, winner) ==
    [p \in DOMAIN tree |->
        IF p = leaf
        THEN [tree[p] EXCEPT !.total_cnt = @ + 1,
                             !.win_cnt = IF winner # tree[p].board.who
                                         THEN @ + 1 ELSE @ - 1]
        ELSE tree[p]]

\* back_propagate with total_cnt++ moved into the else branch
back_propagate_count_losses(tree, leaf, winner) ==
    [p \in DOMAIN tree |->
        IF IsPrefix(p, leaf)
        THEN IF winner # tree[p].board.who
             THEN [tree[p] EXCEPT !.win_cnt = @ + 1]
             ELSE [tree[p] EXCEPT !.win_cnt = @ - 1, !.total_cnt = @ + 1]
        ELSE tree[p]]

\* back_propagate with win_cnt++ when the winner is the player to move
back_propagate_credit_mover(tree, leaf, winner) ==
    [p \in DOMAIN tree |->
        IF IsPrefix(p, leaf)
        THEN [tree[p] EXCEPT !.total_cnt = @ + 1,
                             !.win_cnt = IF winner = tree[p].board.who
                                         THEN @ + 1 ELSE @ - 1]
        ELSE tree[p]]

\* back_propagate with the loop running over every node of the tree
back_propagate_whole_tree(tree, leaf, winner) ==
    [p \in DOMAIN tree |->
        [tree[p] EXCEPT !.total_cnt = @ + 1,
                        !.win_cnt = IF winner # tree[p].board.who
                                    THEN @ + 1 ELSE @ - 1]]

\* back_propagate with the loop stopping before the last node of the path
back_propagate_skip_last(tree, leaf, winner) ==
    [p \in DOMAIN tree |->
        IF IsPrefix(p, leaf) /\ p # leaf
        THEN [tree[p] EXCEPT !.total_cnt = @ + 1,
                             !.win_cnt = IF winner # tree[p].board.who
                                         THEN @ + 1 ELSE @ - 1]
        ELSE tree[p]]

\* node::back_propagate over the path root .. leaf
back_propagate(tree, leaf, winner) ==
    [p \in DOMAIN tree |->
        IF IsPrefix(p, leaf)
        THEN [tree[p] EXCEPT !.total_cnt = @ + 1,
                             !.win_cnt = IF winner # tree[p].board.who
                                         THEN @ + 1 ELSE @ - 1]
        ELSE tree[p]]

\* one turn of the for loop of node::MCTS, for every pair of orders the
\* engine can shuffle the cells into (in expand_from_leaf and in
\* simulate_winner): the set of [tree, last], the tree after back_propagate
\* and the last node of the path
mcts_iteration(tree, c) ==
    LET leaf == select_root_to_leaf(tree, c)
    IN  UNION {
          {[tree |-> back_propagate(ex.tree, ex.node, winner), last |-> ex.node] :
              winner \in {simulate_winner(ex.tree[ex.node].board, vec) :
                             vec \in all_space}} :
          ex \in {expand_from_leaf(tree, leaf, vec) : vec \in all_space}}

\* MostVisited comparing win_rate in place of total_cnt
RECURSIVE MostWinning(_, _, _, _)
MostWinning(tree, k, max_rate, best) ==
    IF k > Len(tree[<<>>].child) THEN best
    ELSE LET q == <<tree[<<>>].child[k]>>
         IN  IF k = 1 \/ win_rate(tree[q]) > max_rate
             THEN MostWinning(tree, k + 1, win_rate(tree[q]), q)
             ELSE MostWinning(tree, k + 1, max_rate, best)

\* the loop of select_action: the first child in iteration order whose
\* total_cnt is greater than every total_cnt before it
RECURSIVE MostVisited(_, _, _, _)
MostVisited(tree, k, max_visit, best) ==
    IF k > Len(tree[<<>>].child) THEN best
    ELSE LET q == <<tree[<<>>].child[k]>>
         IN  IF k = 1 \/ tree[q].total_cnt > max_visit
             THEN MostVisited(tree, k + 1, tree[q].total_cnt, q)
             ELSE MostVisited(tree, k + 1, max_visit, best)

\* node::select_action
select_action(tree) ==
    IF Len(tree[<<>>].child) = 0 THEN NoMove
    ELSE tree[MostVisited(tree, 1, 0, <<>>)].place_pos

\* ------------------------------------------------- player::take_action
\* state, N, c, thread_num: the board handed to take_action, meta["N"],
\*   meta["c"] (in units of 1/1000) and omp_get_num_procs()
\* pc: the place of the calling thread in take_action
\* split, i: the locals split and i (the checkpoint loop counter)
\* root_vec, average_selection: the locals of these names, indexed by thread
\* todo: per thread, the turns left of the for loop of its running MCTS call
\* joined: per thread, whether it has left the current parallel region
\* mcts_ret: per thread, the value its last MCTS call returned
\* ret: the action take_action returned
\* engine_users: the threads that have used random_agent::engine inside the
\*   current parallel region
\* completed, path_ends: per thread, the number of finished MCTS turns, and
\*   per node the number of them whose path ended at the node (history)
\* rollout, exit_probe, ucb_probe: the state of simulate_winner, of the
\*   early-exit test and of the child selection when run on their own
\* cycle: the state of one node::MCTS call followed step by step
\* twin: the state of two node::MCTS calls made one after the other, each
\*   after seeding the engine
\* heur: the state of one heuristic_agent::take_action call
VARIABLES state, N, c, thread_num, pc, split, i, root_vec, average_selection,
          todo, joined, mcts_ret, ret, engine_users, completed, path_ends,
          rollout, exit_probe, ucb_probe, cycle, twin, heur

vars == <<state, N, c, thread_num, pc, split, i, root_vec, average_selection,
          todo, joined, mcts_ret, ret, engine_users, completed, path_ends,
          rollout, exit_probe, ucb_probe, cycle, twin, heur>>

search_vars == <<state, N, c, thread_num, pc, split, i, root_vec,
                 average_selection, todo, joined, mcts_ret, ret, engine_users,
                 completed, path_ends>>

Threads == 1 .. thread_num

\* the exploration constants tried, in units of 1/1000
ExplorationConstants == {0, 1000}

\* action(): the default action, no move
DefaultAction == [kind |-> "default"]

\* action::place(pos, who)
PlaceAction(pos, who) == [kind |-> "place", pos |-> pos, who |-> who]

NotReturned == [kind |-> "running"]

RECURSIVE SumUpTo(_, _)
SumUpTo(f, k) == IF k = 0 THEN 0 ELSE f[k] + SumUpTo(f, k - 1)

\* result[j] += average_selection[i][j] over the threads
aggregate(sel, nthreads) ==
    [j \in Cells |-> SumUpTo([w \in 1 .. nthreads |-> sel[w][j]], nthreads)]

\* the loop over result of the early exit: [max1, max2] after cell j and on
RECURSIVE TwoLargest(_, _, _, _)
TwoLargest(result, j, max1, max2) ==
    IF j >= NumCells THEN [max1 |-> max1, max2 |-> max2]
    ELSE LET tmp == result[j]
         IN  IF tmp > max1 THEN TwoLargest(result, j + 1, tmp, max1)
             ELSE IF tmp > max2 THEN TwoLargest(result, j + 1, max1, tmp)
                  ELSE TwoLargest(result, j + 1, max1, max2)

two_largest(result) == TwoLargest(result, 0, -2147483647, -2147483647)

\* N * thread_num - ((i * N / split) * thread_num)
remaining(budget, nthreads, k, parts) ==
    budget * nthreads - ((k * budget) \div parts) * nthreads

\* early_exit with f = 0
early_exit_no_rest(max1, max2, rest) == max2 < max1

\* early_exit with f = 1
early_exit_whole(max1, max2, rest) == max2 + rest < max1

\* max2 + f * remaining < max1 with f = 0.5: the float sum is exact for
\* these magnitudes, so the test is the comparison of the doubled values
early_exit(max1, max2, rest) == 2 * max2 + rest < 2 * max1

\* max_element(result.begin(), result.end()): the first largest entry
RECURSIVE MaxElement(_, _, _)
MaxElement(result, j, best) ==
    IF j >= NumCells THEN best
    ELSE IF result[j] > result[best] THEN MaxElement(result, j + 1, j)
         ELSE MaxElement(result, j + 1, best)

max_element(result) == MaxElement(result, 1, 0)

\* final_action without the test (*iter) == 0
final_action_unchecked(result, who) == PlaceAction(max_element(result), who)

\* the tail of take_action: the action returned for the aggregate result
final_action(result, who) ==
    LET iter == max_element(result)
    IN  IF result[iter] = 0 THEN DefaultAction ELSE PlaceAction(iter, who)

\* the copy of the root's children into average_selection[id]
write_back(sel, tree) ==
    [j \in Cells |-> IF j \in SeqToSet(tree[<<>>].child)
                     THEN tree[<<j>>].total_cnt ELSE sel[j]]

IdleRollout == [pc |-> "idle"]
IdleExitProbe == [pc |-> "idle"]
IdleUcbProbe == [pc |-> "idle"]
IdleCycle == [pc |-> "idle"]
IdleTwin == [pc |-> "idle"]
IdleHeuristic == [pc |-> "idle"]

probes_idle ==
    /\ rollout = IdleRollout
    /\ exit_probe = IdleExitProbe
    /\ ucb_probe = IdleUcbProbe
    /\ cycle = IdleCycle
    /\ twin = IdleTwin
    /\ heur = IdleHeuristic

search_start(boards, budgets, constants, nprocs) ==
    /\ state \in boards
    /\ N \in budgets
    /\ c \in constants
    /\ thread_num \in nprocs
    /\ pc = "start"
    /\ split = 0
    /\ i = 0
    /\ root_vec = <<>>
    /\ average_selection = <<>>
    /\ todo = <<>>
    /\ joined = <<>>
    /\ mcts_ret = <<>>
    /\ ret = NotReturned
    /\ engine_users = {}
    /\ completed = <<>>
    /\ path_ends = <<>>

\* the boards with few empty cells
CrowdedBoards ==
    {b \in ReachableBoards :
        Cardinality({j \in Cells : b.grid[j] = "empty"}) <= MaxSharedEmpty}

\* a call of take_action: any board with one thread, a crowded board with
\* more
Init ==
    /\ \/ search_start(ReachableBoards, 0 .. MaxBudget, ExplorationConstants, {1})
       \/ search_start(CrowdedBoards, 0 .. MaxBudget, ExplorationConstants,
                       2 .. MaxThreads)
    /\ probes_idle

\* the parallel region of one more MCTS call of k turns by every thread
enter_region(k) ==
    /\ todo' = [w \in Threads |-> k]
    /\ joined' = [w \in Threads |-> FALSE]
    /\ engine_users' = {}

\* the head of the checkpoint loop with counter k: one more chunk, or out
loop_head(k) ==
    /\ i' = k
    /\ IF k <= split
       THEN /\ pc' = "chunk"
            /\ enter_region(N \div split)
       ELSE /\ pc' = "finish"
            /\ UNCHANGED <<todo, joined, engine_users>>

\* take_action up to the first parallel region (lines 97-117), with the
\* checkpoint granule unit
Begin(unit) ==
    /\ pc = "start"
    /\ IF N = 0
       THEN /\ pc' = "done"
            /\ ret' = DefaultAction
            /\ UNCHANGED <<split, root_vec, average_selection, todo, joined,
                           mcts_ret, engine_users, completed, path_ends>>
       ELSE /\ pc' = "first"
            /\ root_vec' = [w \in Threads |-> NewTree(state)]
            /\ average_selection' = [w \in Threads |-> [j \in Cells |-> 0]]
            /\ split' = N \div unit
            /\ enter_region(N \div 4)
            /\ mcts_ret' = [w \in Threads |-> NoMove]
            /\ completed' = [w \in Threads |-> 0]
            /\ path_ends' = [w \in Threads |-> [p \in {<<>>} |-> 0]]
            /\ UNCHANGED ret
    /\ UNCHANGED <<state, N, c, thread_num, i, rollout, exit_probe, ucb_probe, cycle, twin,
                   heur>>

\* one turn of the for loop of MCTS run by thread w
MctsTurn(w) ==
    /\ pc \in {"first", "chunk"}
    /\ w \in Threads
    /\ todo[w] > 0
    /\ \E r \in mcts_iteration(root_vec[w], c) :
          /\ root_vec' = [root_vec EXCEPT ![w] = r.tree]
          /\ path_ends' = [path_ends EXCEPT ![w] =
                [p \in DOMAIN r.tree |->
                    (IF p \in DOMAIN @ THEN @[p] ELSE 0)
                    + (IF p = r.last THEN 1 ELSE 0)]]
    /\ todo' = [todo EXCEPT ![w] = @ - 1]
    /\ completed' = [completed EXCEPT ![w] = @ + 1]
    /\ engine_users' = engine_users \cup {w}
    /\ UNCHANGED <<state, N, c, thread_num, pc, split, i, average_selection,
                   joined, mcts_ret, ret, rollout, exit_probe, ucb_probe, cycle, twin,
                   heur>>

\* thread w returns from MCTS and leaves the parallel region, copying its
\* root's children to average_selection[w] in the checkpoint loop
MctsReturn(w) ==
    /\ pc \in {"first", "chunk"}
    /\ w \in Threads
    /\ todo[w] = 0
    /\ ~joined[w]
    /\ mcts_ret' = [mcts_ret EXCEPT ![w] = select_action(root_vec[w])]
    /\ average_selection' =
          IF pc = "chunk"
          THEN [average_selection EXCEPT ![w] = write_back(@, root_vec[w])]
          ELSE average_selection
    /\ joined' = [joined EXCEPT ![w] = TRUE]
    /\ UNCHANGED <<state, N, c, thread_num, pc, split, i, root_vec, todo, ret,
                   engine_users, completed, path_ends, rollout, exit_probe,
                   ucb_probe, cycle, twin, heur>>

\* the end of the first parallel region and the entry of the checkpoint loop
EndFirstPass ==
    /\ pc = "first"
    /\ \A w \in Threads : joined[w]
    /\ loop_head(split \div 4 + 1)
    /\ UNCHANGED <<state, N, c, thread_num, split, root_vec, average_selection,
                   mcts_ret, ret, completed, path_ends, rollout, exit_probe,
                   ucb_probe, cycle, twin, heur>>

\* whether the early exit of checkpoint k is taken
exit_now(k) ==
    LET m == two_largest(aggregate(average_selection, thread_num))
    IN  early_exit(m.max1, m.max2, remaining(N, thread_num, k, split))

\* Checkpoint without the barrier at the end of the parallel region
Checkpoint_no_barrier ==
    /\ pc = "chunk"
    /\ IF exit_now(i)
       THEN /\ pc' = "finish"
            /\ UNCHANGED <<i, todo, joined, engine_users>>
       ELSE loop_head(i + 1)
    /\ UNCHANGED <<state, N, c, thread_num, split, root_vec, average_selection,
                   mcts_ret, ret, completed, path_ends, rollout, exit_probe,
                   ucb_probe, cycle, twin, heur>>

\* the end of the parallel region of a checkpoint, the early exit test and
\* the step of the loop
Checkpoint ==
    /\ pc = "chunk"
    /\ \A w \in Threads : joined[w]
    /\ IF exit_now(i)
       THEN /\ pc' = "finish"
            /\ UNCHANGED <<i, todo, joined, engine_users>>
       ELSE loop_head(i + 1)
    /\ UNCHANGED <<state, N, c, thread_num, split, root_vec, average_selection,
                   mcts_ret, ret, completed, path_ends, rollout, exit_probe,
                   ucb_probe, cycle, twin, heur>>

\* delete_tree of every root, the final aggregation and the return
Finish ==
    /\ pc = "finish"
    /\ root_vec' = <<>>
    /\ ret' = final_action(aggregate(average_selection, thread_num), state.who)
    /\ pc' = "done"
    /\ UNCHANGED <<state, N, c, thread_num, split, i, average_selection, todo,
                   joined, mcts_ret, engine_users, completed, path_ends,
                   rollout, exit_probe, ucb_probe, cycle, twin, heur>>

Search ==
    \/ \E w \in Workers : MctsTurn(w)
    \/ \E w \in Workers : MctsReturn(w)
    \/ EndFirstPass
    \/ Checkpoint
    \/ Finish

Next == Begin(ScaledUnit) \/ Search

Spec == Init /\ [][Next]_vars

\* ------------------------------------------- take_action at its own scale
\* The search with the checkpoint granule of the code, on the boards that
\* leave the player to move without a legal move (the tree stays its root).
DeadBoards == {b \in ReachableBoards : LegalMoves(b) = {}}

\* one of them with black to move
DeadBoard == CHOOSE b \in DeadBoards : b.who = "black"

FullScaleBudgets == {999, 1000, 2000}

InitFullScale ==
    /\ search_start({DeadBoard}, FullScaleBudgets, {1000}, {1})
    /\ probes_idle

NextFullScale == Begin(CheckpointUnit) \/ Search

SpecFullScale == InitFullScale /\ [][NextFullScale]_vars

\* -------------------------------- take_action with a coarse granule
\* The search with budgets on both sides of the checkpoint granule: below
\* it, split is 0 and the first pass is all that runs.
NextCoarse == Begin(CoarseUnit) \/ Search

SpecCoarse == Init /\ [][NextCoarse]_vars

search_idle ==
    /\ state = EmptyBoard
    /\ N = 0
    /\ c = 0
    /\ thread_num = 1
    /\ pc = "idle"
    /\ split = 0
    /\ i = 0
    /\ root_vec = <<>>
    /\ average_selection = <<>>
    /\ todo = <<>>
    /\ joined = <<>>
    /\ mcts_ret = <<>>
    /\ ret = NotReturned
    /\ engine_users = {}
    /\ completed = <<>>
    /\ path_ends = <<>>

\* ------------------------------------------- simulate_winner on its own
\* rollout is [pc, start, r, winner]: the board the rollout started from,
\* the locals [b, q, cnt, tries] of simulate_winner and the value returned
InitRollout ==
    /\ search_idle
    /\ cycle = IdleCycle
    /\ twin = IdleTwin
    /\ heur = IdleHeuristic
    /\ exit_probe = IdleExitProbe
    /\ ucb_probe = IdleUcbProbe
    /\ \E b \in ReachableBoards, vec \in all_space :
          rollout = [pc |-> "loop", start |-> b, r |-> rollout_start(b, vec),
                     winner |-> "none"]

\* one turn of the while loop
RolloutTurn ==
    /\ rollout.pc = "loop"
    /\ ~rollout_done(rollout.r)
    /\ rollout' = [rollout EXCEPT !.r = rollout_step(@)]
    /\ UNCHANGED <<search_vars, exit_probe, ucb_probe, cycle, twin, heur>>

\* the exit of the loop and the return
RolloutReturn ==
    /\ rollout.pc = "loop"
    /\ rollout_done(rollout.r)
    /\ rollout' = [rollout EXCEPT !.pc = "returned",
                                  !.winner = rollout_winner(rollout.r)]
    /\ UNCHANGED <<search_vars, exit_probe, ucb_probe, cycle, twin, heur>>

NextRollout == RolloutTurn \/ RolloutReturn

SpecRollout == InitRollout /\ [][NextRollout]_vars

\* ------------------------------------------ the early exit test on its own
\* exit_probe is [pc, result, rest, exit]: an aggregate visit vector, the
\* remaining iterations and the outcome of the test
ProbeVisits == {0, 100, 110, 1000}
ProbeRests == {0, 50, 1000}

InitExit ==
    /\ search_idle
    /\ cycle = IdleCycle
    /\ twin = IdleTwin
    /\ heur = IdleHeuristic
    /\ rollout = IdleRollout
    /\ ucb_probe = IdleUcbProbe
    /\ \E result \in [Cells -> ProbeVisits], rest \in ProbeRests :
          exit_probe = [pc |-> "test", result |-> result, rest |-> rest,
                        exit |-> FALSE]

\* lines 146-161 on the probe's vector
ExitTest ==
    /\ exit_probe.pc = "test"
    /\ LET m == two_largest(exit_probe.result)
       IN  exit_probe' = [exit_probe EXCEPT
                             !.pc = "tested",
                             !.exit = early_exit(m.max1, m.max2, exit_probe.rest)]
    /\ UNCHANGED <<search_vars, rollout, ucb_probe, cycle, twin, heur>>

NextExit == ExitTest

SpecExit == InitExit /\ [][NextExit]_vars

\* --------------------------------------- the child selection on its own
\* ucb_probe is [pc, tree, c, chosen]: a root over the empty board with all
\* its children expanded and given statistics, and the path the selection
\* returns
MaxProbeVisits == 2

ProbeStats ==
    {st \in [win_cnt : -MaxProbeVisits .. MaxProbeVisits, total_cnt : 0 .. MaxProbeVisits] :
        -st.total_cnt <= st.win_cnt /\ st.win_cnt <= st.total_cnt}

ProbeTree(order, stats, total) ==
    [p \in {<<>>} \cup {<<k>> : k \in LegalMoves(EmptyBoard)} |->
        IF p = <<>>
        THEN [NewNode(EmptyBoard, NoMove) EXCEPT
                 !.total_cnt = total,
                 !.child = order]
        ELSE [NewNode(Place(EmptyBoard, p[1]), p[1]) EXCEPT
                 !.win_cnt = stats[p[1]].win_cnt,
                 !.total_cnt = stats[p[1]].total_cnt]]

InitUcb ==
    /\ search_idle
    /\ cycle = IdleCycle
    /\ twin = IdleTwin
    /\ heur = IdleHeuristic
    /\ rollout = IdleRollout
    /\ exit_probe = IdleExitProbe
    /\ \E stats \in [LegalMoves(EmptyBoard) -> ProbeStats],
          total \in 1 .. (NumCells * MaxProbeVisits),
          k \in ExplorationConstants :
          /\ SumUpTo([j \in 1 .. NumCells |-> stats[j - 1].total_cnt], NumCells) <= total
          /\ ucb_probe = [pc |-> "select",
                          tree |-> ProbeTree([j \in 1 .. NumCells |-> j - 1], stats, total),
                          c |-> k, chosen |-> <<>>]

\* select_root_to_leaf on the probe's tree
SelectProbe ==
    /\ ucb_probe.pc = "select"
    /\ ucb_probe' = [ucb_probe EXCEPT
                        !.pc = "selected",
                        !.chosen = select_root_to_leaf(ucb_probe.tree, ucb_probe.c)]
    /\ UNCHANGED <<search_vars, rollout, exit_probe, cycle, twin, heur>>

NextUcb == SelectProbe

SpecUcb == InitUcb /\ [][NextUcb]_vars

\* ------------------------------------------- one node::MCTS call, by steps
\* the vector select_root_to_leaf returns, grown from vec: the nodes from
\* the root to the leaf
RECURSIVE DescendPath(_, _, _)
DescendPath(tree, vec, ucb_c) ==
    LET curr == vec[Len(vec)]
    IN  IF is_leaf(tree[curr]) \/ Len(tree[curr].child) = 0 THEN vec
        ELSE DescendPath(tree,
                         Append(vec, ScanChildren(tree, curr, ucb_c, 1, 0, curr)),
                         ucb_c)

select_root_to_leaf_vec(tree, ucb_c) == DescendPath(tree, <<<<>>>>, ucb_c)

\* cycle is [pc, tree, c, left, path, winner, before, wins, ret]:
\*   tree, c: the tree under the root MCTS is called on, and ucb_c
\*   left: the turns of the for loop still to run
\*   path: the local path (the nodes from the root on)
\*   winner: the local winner
\*   before: the tree before the last step (history)
\*   wins: per node, the number of simulations through it won by the player
\*     to move at the node, and by the other player (history)
\*   ret: the value returned
NoWins == [mover |-> 0, other |-> 0]

cycle_start(b, n, k) ==
    [pc |-> "select", tree |-> NewTree(b), c |-> k, left |-> n,
     path |-> <<>>, winner |-> "none", before |-> NewTree(b),
     wins |-> [p \in {<<>>} |-> NoWins], ret |-> NoMove]

\* the numbers of turns MCTS is called with
CycleBudgets == {0, 1, MaxCycles}

InitCycle ==
    /\ search_idle
    /\ rollout = IdleRollout
    /\ exit_probe = IdleExitProbe
    /\ ucb_probe = IdleUcbProbe
    /\ twin = IdleTwin
    /\ heur = IdleHeuristic
    /\ \E b \in ReachableBoards, n \in CycleBudgets, k \in ExplorationConstants :
          cycle = cycle_start(b, n, k)

\* std::vector<node*> path = select_root_to_leaf(...)
CycleSelect ==
    /\ cycle.pc = "select"
    /\ cycle.left > 0
    /\ cycle' = [cycle EXCEPT !.pc = "expand",
                              !.path = select_root_to_leaf_vec(cycle.tree, cycle.c),
                              !.before = cycle.tree]
    /\ UNCHANGED <<search_vars, rollout, exit_probe, ucb_probe, twin, heur>>

\* leaf->expand_from_leaf(engine) and the push_back of a new node
CycleExpand ==
    /\ cycle.pc = "expand"
    /\ \E vec \in all_space :
          LET leaf == cycle.path[Len(cycle.path)]
              ex == expand_from_leaf(cycle.tree, leaf, vec)
          IN  cycle' = [cycle EXCEPT
                           !.pc = "simulate",
                           !.tree = ex.tree,
                           !.path = IF ex.node # leaf THEN Append(@, ex.node) ELSE @,
                           !.before = cycle.tree]
    /\ UNCHANGED <<search_vars, rollout, exit_probe, ucb_probe, twin, heur>>

\* path.back()->simulate_winner(engine)
CycleSimulate ==
    /\ cycle.pc = "simulate"
    /\ \E vec \in all_space :
          LET last == cycle.path[Len(cycle.path)]
          IN  cycle' = [cycle EXCEPT
                           !.pc = "backprop",
                           !.winner = simulate_winner(cycle.tree[last].board, vec),
                           !.before = cycle.tree]
    /\ UNCHANGED <<search_vars, rollout, exit_probe, ucb_probe, twin, heur>>

\* back_propagate(path, winner) and the step of the for loop
CycleBackPropagate ==
    /\ cycle.pc = "backprop"
    /\ LET last == cycle.path[Len(cycle.path)]
           after == back_propagate(cycle.tree, last, cycle.winner)
       IN  cycle' = [cycle EXCEPT
                        !.pc = "select",
                        !.tree = after,
                        !.left = @ - 1,
                        !.before = cycle.tree,
                        !.wins = [p \in DOMAIN after |->
                            LET old == IF p \in DOMAIN @ THEN @[p] ELSE NoWins
                            IN  IF ~IsPrefix(p, last) THEN old
                                ELSE IF cycle.winner = after[p].board.who
                                     THEN [old EXCEPT !.mover = @ + 1]
                                     ELSE [old EXCEPT !.other = @ + 1]]]
    /\ UNCHANGED <<search_vars, rollout, exit_probe, ucb_probe, twin, heur>>

\* return select_action();
CycleReturn ==
    /\ cycle.pc = "select"
    /\ cycle.left = 0
    /\ cycle' = [cycle EXCEPT !.pc = "returned",
                              !.ret = select_action(cycle.tree),
                              !.before = cycle.tree]
    /\ UNCHANGED <<search_vars, rollout, exit_probe, ucb_probe, twin, heur>>

NextCycle ==
    \/ CycleSelect
    \/ CycleExpand
    \/ CycleSimulate
    \/ CycleBackPropagate
    \/ CycleReturn

SpecCycle == InitCycle /\ [][NextCycle]_vars

\* --------------------------- two node::MCTS calls with a seeded engine
\* std::default_random_engine is minstd_rand0 in libstdc++: one call of
\* operator(), x' = 16807 x mod (2^31 - 1), computed without overflow
minstd_rand0(x) ==
    LET t == 16807 * (x % 127773) - 2836 * (x \div 127773)
    IN  IF t > 0 THEN t ELSE t + 2147483647

\* engine.seed(value): the state after seeding
engine_seed(value) ==
    IF value % 2147483647 = 0 THEN 1 ELSE value % 2147483647

\* random_agent_engine reading the clock whatever meta holds
random_agent_engine_clock(meta, now) == engine_seed(now)

\* random_agent's constructor: the seed of meta when there is one, the
\* time of the call when not
random_agent_engine(meta, now) ==
    IF meta.has_seed THEN engine_seed(meta.seed) ELSE engine_seed(now)

\* uniform_int_distribution{0, hi}(engine) of libstdc++ on an engine of range
\* 2^31 - 3: [value, engine], the draw and the engine after it
RECURSIVE uniform_int(_, _)
uniform_int(hi, x) ==
    LET scaling == 2147483645 \div (hi + 1)
        past == (hi + 1) * scaling
        y == minstd_rand0(x)
    IN  IF y - 1 < past
        THEN [value |-> (y - 1) \div scaling, engine |-> y]
        ELSE uniform_int(hi, y)

\* std::iter_swap(first + a, first + b)
iter_swap(vec, a, b) == [vec EXCEPT ![a + 1] = vec[b + 1], ![b + 1] = vec[a + 1]]

\* the loop of std::shuffle that swaps two elements per draw, from i on
RECURSIVE ShufflePairs(_, _, _)
ShufflePairs(vec, k, x) ==
    IF k >= Len(vec) THEN [vec |-> vec, engine |-> x]
    ELSE LET d == uniform_int((k + 1) * (k + 2) - 1, x)
             one == iter_swap(vec, k, d.value \div (k + 2))
             two == iter_swap(one, k + 1, d.value % (k + 2))
         IN  ShufflePairs(two, k + 2, d.engine)

\* std::shuffle(vec.begin(), vec.end(), engine) of libstdc++ (the branch for
\* ranges whose squared size the engine covers): [vec, engine]
shuffle(vec, x) ==
    IF Len(vec) % 2 = 0
    THEN LET d == uniform_int(1, x)
         IN  ShufflePairs(iter_swap(vec, 1, d.value), 2, d.engine)
    ELSE ShufflePairs(vec, 1, x)

\* node::all_space with the engine in state x: [vec, engine]
all_space_engine(x) == shuffle([k \in 1 .. NumCells |-> k - 1], x)

\* one turn of the for loop of node::MCTS with the engine in state x:
\* [tree, engine]
mcts_turn(tree, ucb_c, x) ==
    LET leaf == select_root_to_leaf(tree, ucb_c)
        first == all_space_engine(x)
        ex == expand_from_leaf(tree, leaf, first.vec)
        second == all_space_engine(first.engine)
        winner == simulate_winner(ex.tree[ex.node].board, second.vec)
    IN  [tree |-> back_propagate(ex.tree, ex.node, winner),
         engine |-> second.engine]

\* twin is [pc, run, meta, now, board, c, n, engine, tree, left, trace, ret,
\* first]:
\*   run: 1 for the first agent and its MCTS call, 2 for the second
\*   meta, now: the agent's meta (has_seed, seed) and the value of time(NULL)
\*     when the agent is constructed
\*   board, c, n: the arguments of both calls
\*   engine, tree, left: the agent's engine, the tree under the root and
\*     the turns of the for loop still to run
\*   trace: the trees after each turn of the running call (history)
\*   ret: the value the running call returned
\*   first: ret, the root's total_cnt and trace of the first call (history)
Seeds == 0 .. MaxSeed

InitTwin ==
    /\ search_idle
    /\ rollout = IdleRollout
    /\ exit_probe = IdleExitProbe
    /\ ucb_probe = IdleUcbProbe
    /\ cycle = IdleCycle
    /\ heur = IdleHeuristic
    /\ \E b \in ReachableBoards, n \in 0 .. MaxBudget, k \in ExplorationConstants,
          meta \in [has_seed : BOOLEAN, seed : Seeds], now \in 1 .. MaxSeed :
          twin = [pc |-> "construct", run |-> 1, meta |-> meta, now |-> now,
                  board |-> b, c |-> k, n |-> n, engine |-> 1,
                  tree |-> NewTree(b), left |-> 0, trace |-> <<>>,
                  ret |-> NoMove,
                  first |-> [ret |-> NoMove, total_cnt |-> 0, trace |-> <<>>]]

\* the construction of the agent and the entry of MCTS on a new root
TwinConstruct ==
    /\ twin.pc = "construct"
    /\ twin' = [twin EXCEPT !.pc = "loop",
                            !.engine = random_agent_engine(twin.meta, twin.now),
                            !.tree = NewTree(twin.board),
                            !.left = twin.n,
                            !.trace = <<>>]
    /\ UNCHANGED <<search_vars, rollout, exit_probe, ucb_probe, cycle, heur>>

\* one turn of the for loop of MCTS
TwinTurn ==
    /\ twin.pc = "loop"
    /\ twin.left > 0
    /\ LET r == mcts_turn(twin.tree, twin.c, twin.engine)
       IN  twin' = [twin EXCEPT !.tree = r.tree,
                                !.engine = r.engine,
                                !.left = @ - 1,
                                !.trace = Append(@, r.tree)]
    /\ UNCHANGED <<search_vars, rollout, exit_probe, ucb_probe, cycle, heur>>

\* the return of the first call; the second agent is constructed at the
\* same or at a later second
TwinReturnFirst ==
    /\ twin.pc = "loop"
    /\ twin.left = 0
    /\ twin.run = 1
    /\ \E later \in {twin.now, twin.now + 1} :
          twin' = [twin EXCEPT
                      !.pc = "construct",
                      !.run = 2,
                      !.now = later,
                      !.first = [ret |-> select_action(twin.tree),
                                 total_cnt |-> twin.tree[<<>>].total_cnt,
                                 trace |-> twin.trace]]
    /\ UNCHANGED <<search_vars, rollout, exit_probe, ucb_probe, cycle, heur>>

\* the return of the second call
TwinReturnSecond ==
    /\ twin.pc = "loop"
    /\ twin.left = 0
    /\ twin.run = 2
    /\ twin' = [twin EXCEPT !.pc = "returned",
                            !.ret = select_action(twin.tree)]
    /\ UNCHANGED <<search_vars, rollout, exit_probe, ucb_probe, cycle, heur>>

NextTwin ==
    \/ TwinConstruct
    \/ TwinTurn
    \/ TwinReturnFirst
    \/ TwinReturnSecond

SpecTwin == InitTwin /\ [][NextTwin]_vars

\* ------------------------------------- heuristic_agent::take_action
\* The heuristic reads the grid of one row: size_x is NumCells and size_y is
\* 1, so the cells above, below and diagonal to a cell are off the board.

\* board::test(x, y, who): the result of placing a stone of who
test(b, pos, who) == PlaceResult([b EXCEPT !.who = who], pos)

\* a bool used as an int
Num(flag) == IF flag THEN 1 ELSE 0

\* heuristic::is_eye: an empty cell whose neighbours on the board are who's
is_eye(grid, x, who) ==
    /\ x \in Cells
    /\ grid[x] = "empty"
    /\ \A d \in Neighbours(x) : grid[d] = who

\* heuristic::count_liberty: the empty neighbours
count_liberty(grid, x) == Cardinality({d \in Neighbours(x) : grid[d] = "empty"})

\* heuristic::is_atari: three of the four sides off the board or the
\* opponent's, and one liberty
is_atari(grid, x, who) ==
    /\ (4 - Cardinality(Neighbours(x)))
          + Cardinality({d \in Neighbours(x) : grid[d] = Opponent(who)}) = 3
    /\ count_liberty(grid, x) = 1

\* heuristic::count_corner_adjacent: the diagonal cells holding who; they
\* are the cells of the rows above and below
count_corner_adjacent(grid, x, who) ==
    Cardinality({d \in Neighbours(x) : FALSE /\ grid[d] = who})

\* heuristic::count_side_adjacent: the neighbours holding who
count_side_adjacent(grid, x, who) ==
    Cardinality({d \in Neighbours(x) : grid[d] = who})

\* heuristic::count_available_place: the cells legal for who
count_available_place(b, who) ==
    Cardinality({pos \in Cells : test(b, pos, who) = "legal"})

\* heuristic::action_value(b, x, y, who)
action_value(b, x, who) ==
    LET score == - 16 * Num(is_eye(b.grid, x, who))
                 + 8 * count_liberty(b.grid, x)
                 + 24 * Num(is_atari(b.grid, x, who))
                 + 8 * count_corner_adjacent(b.grid, x, who)
                 + 1 * count_corner_adjacent(b.grid, x, Opponent(who))
                 + 1 * count_side_adjacent(b.grid, x, Opponent(who))
        before_count_available_place == count_available_place(b, Opponent(who))
        placed == Place([b EXCEPT !.who = who], x)
        after_count_available_place ==
            count_available_place(placed, Opponent(who))
    IN  score
        + 16 * (Num(is_eye(placed.grid, x - 1, who))
                + Num(is_eye(placed.grid, x + 1, who)))
        + 24 * (before_count_available_place - after_count_available_place)

\* the for loop of heuristic_agent::take_action from index k on: max_index,
\* the index in space of the first legal cell of the highest score
RECURSIVE max_index_from(_, _, _, _, _, _)
max_index_from(b, who, space, k, max_index, max_score) ==
    IF k >= Len(space) THEN max_index
    ELSE IF /\ test(b, space[k + 1], who) = "legal"
            /\ action_value(b, space[k + 1], who) > max_score
         THEN max_index_from(b, who, space, k + 1, k,
                             action_value(b, space[k + 1], who))
         ELSE max_index_from(b, who, space, k + 1, max_index, max_score)

\* the centre cell, the code's (4, 4) and index 40
OpeningCell == NumCells \div 2

\* the cells in the middle of the edges, the code's 4, 36, 44 and 76: the
\* two ends of the row
EdgeCells == {0, NumCells - 1}

\* the values an int read before the first element of space may hold
StrayValues == (-1) .. NumCells

\* heur is [pc, who, state, space, engine, max_index, read_at, i, ret]:
\*   who, space, engine: the members of the agent
\*   state: the argument of the call
\*   max_index, i: the locals of take_action
\*   read_at: the indices with which space[max_index] was read to set i
\*     (history)
\*   ret: the value returned
InitHeuristic ==
    /\ search_idle
    /\ rollout = IdleRollout
    /\ exit_probe = IdleExitProbe
    /\ ucb_probe = IdleUcbProbe
    /\ cycle = IdleCycle
    /\ twin = IdleTwin
    /\ \E b \in ReachableBoards, who \in {"black", "white"},
          meta \in [has_seed : BOOLEAN, seed : Seeds], now \in 1 .. MaxSeed :
          heur = [pc |-> "call", who |-> who, state |-> b,
                  space |-> [k \in 1 .. NumCells |-> k - 1],
                  engine |-> random_agent_engine(meta, now),
                  max_index |-> -1, read_at |-> <<>>, i |-> 0,
                  ret |-> NotReturned]

\* black's opening: the centre when it is legal
HeuristicOpening ==
    /\ heur.pc = "call"
    /\ heur.who = "black"
    /\ test(heur.state, OpeningCell, heur.who) = "legal"
    /\ heur' = [heur EXCEPT !.pc = "returned",
                            !.ret = PlaceAction(OpeningCell, heur.who)]
    /\ UNCHANGED <<search_vars, rollout, exit_probe, ucb_probe, cycle, twin>>

\* the shuffle of space and the for loop over it
HeuristicScan ==
    /\ heur.pc = "call"
    /\ ~ (heur.who = "black" /\ test(heur.state, OpeningCell, heur.who) = "legal")
    /\ LET s == shuffle(heur.space, heur.engine)
       IN  heur' = [heur EXCEPT
                       !.pc = "scanned",
                       !.space = s.vec,
                       !.engine = s.engine,
                       !.max_index = max_index_from(heur.state, heur.who, s.vec,
                                                    0, -1, -9999)]
    /\ UNCHANGED <<search_vars, rollout, exit_probe, ucb_probe, cycle, twin>>

\* auto i = space[max_index].position().i; with max_index = -1 the read is
\* before the first element of space and yields any value
HeuristicRead ==
    /\ heur.pc = "scanned"
    /\ \E v \in StrayValues :
          /\ heur.max_index # -1 => v = heur.space[heur.max_index + 1]
          /\ heur' = [heur EXCEPT !.pc = "read",
                                  !.read_at = Append(@, heur.max_index),
                                  !.i = v]
    /\ UNCHANGED <<search_vars, rollout, exit_probe, ucb_probe, cycle, twin>>

\* the same read with max_index = -1 when the memory before space is not
\* mapped: the call does not return
HeuristicFault ==
    /\ heur.pc = "scanned"
    /\ heur.max_index = -1
    /\ heur' = [heur EXCEPT !.pc = "fault",
                            !.read_at = Append(@, heur.max_index)]
    /\ UNCHANGED <<search_vars, rollout, exit_probe, ucb_probe, cycle, twin>>

\* the centre when the best cell is not in the middle of an edge and the
\* centre is legal, the best cell or action() otherwise
HeuristicReturn ==
    /\ heur.pc = "read"
    /\ heur' = [heur EXCEPT
                   !.pc = "returned",
                   !.ret = IF /\ heur.i \notin EdgeCells
                              /\ test(heur.state, OpeningCell, heur.who) = "legal"
                           THEN PlaceAction(OpeningCell, heur.who)
                           ELSE IF heur.max_index = -1
                                THEN DefaultAction
                                ELSE PlaceAction(heur.space[heur.max_index + 1],
                                                 heur.who)]
    /\ UNCHANGED <<search_vars, rollout, exit_probe, ucb_probe, cycle, twin>>

NextHeuristic ==
    \/ HeuristicOpening
    \/ HeuristicScan
    \/ HeuristicRead
    \/ HeuristicFault
    \/ HeuristicReturn

SpecHeuristic == InitHeuristic /\ [][NextHeuristic]_vars

\* =================================================================== claims
ChildVisits(t, p) ==
    SumUpTo([k \in 1 .. Len(t[p].child) |-> t[Append(p, t[p].child[k])].total_cnt],
            Len(t[p].child))

\* C1: visit conservation.  In every state between MCTS turns and for every
\* thread's tree, the root's total_cnt is the number of finished turns, and
\* every node's total_cnt is the sum of its children's total_cnt plus the
\* number of turns whose path ended at the node (so it is never less than
\* the sum of the children's).
VisitConservation ==
    \A w \in DOMAIN root_vec :
        LET t == root_vec[w]
        IN  /\ t[<<>>].total_cnt = completed[w]
            /\ \A p \in DOMAIN t :
                  /\ t[p].total_cnt = ChildVisits(t, p) + path_ends[w][p]
                  /\ t[p].total_cnt >= ChildVisits(t, p)

VisitConservationWitness ==
    \E w \in DOMAIN root_vec :
        \E p \in DOMAIN root_vec[w] :
            /\ p # <<>>
            /\ ChildVisits(root_vec[w], p) >= 2
            /\ path_ends[w][p] >= 1
            /\ completed[w] >= 4

\* C2: after take_action's search with budget N (a valid one, split > 0),
\* the root of every thread has been visited exactly N times.
RootVisitsEqualBudget ==
    (pc = "finish" /\ split > 0) =>
        \A w \in Threads : root_vec[w][<<>>].total_cnt = N

\* C3: between two barriers no random engine is used by more than one
\* thread.
EngineOwnedByOneThread == Cardinality(engine_users) <= 1

\* C4: a call with a zero budget or a zero checkpoint count ends in a
\* configuration error, before any thread has run, and never in the default
\* action.
InvalidConfigurationRejected ==
    (pc = "done" /\ (N = 0 \/ split = 0)) =>
        /\ ret.kind = "config_error"
        /\ \A w \in DOMAIN completed : completed[w] = 0

\* C5: a position that take_action returns is a legal move of the player to
\* move on the input board, and only legal moves of the input board have a
\* non-zero entry in a thread's visit vector.
ReturnedMoveIsLegal ==
    /\ ret.kind = "place" => (IsLegal(state, ret.pos) /\ ret.who = state.who)
    /\ \A w \in DOMAIN average_selection :
          \A j \in Cells : average_selection[w][j] > 0 => IsLegal(state, j)

ReturnedMoveIsLegalWitness ==
    /\ ret.kind = "place"
    /\ LegalMoves(state) # Cells
    /\ thread_num = 2

\* C6: on a board without a legal move for the player to move, take_action
\* returns the default action and never a position, and an MCTS call that
\* returns with a childless root returns -1.
NoLegalMoveGivesNoMove ==
    /\ LegalMoves(state) = {} =>
          /\ ret.kind # "place"
          /\ pc = "done" => ret = DefaultAction
    /\ \A w \in DOMAIN root_vec :
          (joined[w] /\ Len(root_vec[w][<<>>].child) = 0) => mcts_ret[w] = NoMove

NoLegalMoveWitness ==
    /\ LegalMoves(state) = {}
    /\ pc = "done"
    /\ ret = DefaultAction
    /\ \E w \in DOMAIN completed : completed[w] >= 2
    /\ \A w \in DOMAIN mcts_ret : mcts_ret[w] = NoMove

\* the largest entry of a visit vector, and the largest of the others
Largest(result) ==
    CHOOSE v \in {result[j] : j \in Cells} : \A j \in Cells : result[j] <= v

SecondLargest(result) ==
    LET top == CHOOSE j \in Cells : result[j] = Largest(result)
    IN  CHOOSE v \in {result[j] : j \in Cells \ {top}} :
            \A j \in Cells \ {top} : result[j] <= v

\* C7: the early exit is taken exactly when max2 + 0.5 * remaining < max1
\* for the largest and second largest entry (with multiplicity) of the
\* vector; it is taken for 1000, 100, 50 and not for 110, 100, 50.
EarlyExitTest ==
    exit_probe.pc = "tested" =>
        LET max1 == Largest(exit_probe.result)
            max2 == SecondLargest(exit_probe.result)
            rest == exit_probe.rest
        IN  /\ exit_probe.exit <=> (2 * max2 + rest < 2 * max1)
            /\ (max1 = 1000 /\ max2 = 100 /\ rest = 50) => exit_probe.exit
            /\ (max1 = 110 /\ max2 = 100 /\ rest = 50) => ~exit_probe.exit

EarlyExitTestWitness ==
    /\ exit_probe.pc = "tested"
    /\ Largest(exit_probe.result) = 1000
    /\ SecondLargest(exit_probe.result) = 100
    /\ exit_probe.rest = 50
    /\ exit_probe.exit

\* C8: every node of every tree has -total_cnt <= win_cnt <= total_cnt.
WinCountBound ==
    \A w \in DOMAIN root_vec :
        \A p \in DOMAIN root_vec[w] :
            /\ -root_vec[w][p].total_cnt <= root_vec[w][p].win_cnt
            /\ root_vec[w][p].win_cnt <= root_vec[w][p].total_cnt

WinCountBoundWitness ==
    \E w \in DOMAIN root_vec :
        \E p, q \in DOMAIN root_vec[w] :
            /\ root_vec[w][p].total_cnt >= 2
            /\ root_vec[w][p].win_cnt = root_vec[w][p].total_cnt
            /\ root_vec[w][q].total_cnt >= 2
            /\ root_vec[w][q].win_cnt = -root_vec[w][q].total_cnt

MostTries == (NumCells * (NumCells + 1)) \div 2

\* C10: simulate_winner makes a bounded number of placement attempts (the
\* failure counter never passes the queue size, and the attempts never
\* exceed n(n+1)/2), and from a board without a legal move it returns after
\* one scan of the cells.
RolloutTerminates ==
    rollout.pc # "idle" =>
        /\ rollout.r.cnt <= Len(rollout.r.q)
        /\ rollout.r.tries <= MostTries
        /\ LegalMoves(rollout.start) = {} => rollout.r.tries <= NumCells
        /\ (rollout.pc = "returned" /\ LegalMoves(rollout.start) = {}) =>
              (rollout.r.tries = NumCells /\ rollout.r.b = rollout.start)

RolloutTerminatesWitness ==
    /\ rollout.pc = "returned"
    /\ LegalMoves(rollout.start) = {}
    /\ rollout.r.tries = NumCells
AggregationBarrier ==
    [][/\ (pc = "chunk" /\ (pc' = "finish" \/ i' # i)) =>
             \A w \in Threads :
                 /\ todo[w] = 0
                 /\ joined[w]
                 /\ \A j \in SeqToSet(root_vec[w][<<>>].child) :
                       average_selection[w][j] = root_vec[w][<<j>>].total_cnt
       /\ (pc = "first" /\ pc' # "first") =>
             \A w \in Threads : todo[w] = 0 /\ joined[w]
       /\ pc \in {"finish", "done"} => completed' = completed
      ]_vars

\* an early exit taken with two threads before the last checkpoint
AggregationBarrierWitness ==
    /\ pc = "finish"
    /\ thread_num = 2
    /\ i < split
    /\ \A w \in Threads : completed[w] >= 3
\* the aggregate visit count of position j: the sum over the threads of the
\* total_cnt of the root's child for j, 0 where there is none
TreeAggregate(j) ==
    SumUpTo([w \in 1 .. thread_num |->
                IF j \in SeqToSet(root_vec[w][<<>>].child)
                THEN root_vec[w][<<j>>].total_cnt ELSE 0], thread_num)

\* C13: when take_action leaves the search, the position it returns has the
\* largest aggregate visit count, and it returns the default action (no
\* move) exactly when that largest count is zero.
FinalDecision ==
    [][(pc = "finish" /\ pc' = "done") =>
          /\ ret'.kind = "place" =>
                /\ TreeAggregate(ret'.pos) > 0
                /\ \A j \in Cells : TreeAggregate(j) <= TreeAggregate(ret'.pos)
          /\ ret' = DefaultAction <=> \A j \in Cells : TreeAggregate(j) = 0
      ]_vars

\* the same for the searches that run at least one checkpoint
FinalDecisionAfterCheckpoint ==
    [][(pc = "finish" /\ pc' = "done" /\ split > 0) =>
          /\ ret'.kind = "place" =>
                /\ TreeAggregate(ret'.pos) > 0
                /\ \A j \in Cells : TreeAggregate(j) <= TreeAggregate(ret'.pos)
          /\ ret' = DefaultAction <=> \A j \in Cells : TreeAggregate(j) = 0
      ]_vars
\* C14: the value MCTS returns after its turns is -1 exactly when the root
\* has no child, and is otherwise the place_pos of a child of the root whose
\* total_cnt no other child of the root exceeds.
SingleTreeResult ==
    cycle.pc = "returned" =>
        LET t == cycle.tree
            keys == SeqToSet(t[<<>>].child)
        IN  /\ cycle.left = 0
            /\ cycle.ret = NoMove <=> keys = {}
            /\ cycle.ret # NoMove =>
                  \E k \in keys :
                      /\ t[<<k>>].place_pos = cycle.ret
                      /\ \A j \in keys : t[<<j>>].total_cnt <= t[<<k>>].total_cnt

\* a call that returns the most visited child although another child has
\* the higher win rate
SingleTreeResultWitness ==
    /\ cycle.pc = "returned"
    /\ cycle.ret # NoMove
    /\ \E j \in SeqToSet(cycle.tree[<<>>].child) :
          /\ cycle.tree[<<j>>].total_cnt < cycle.tree[<<cycle.ret>>].total_cnt
          /\ win_rate(cycle.tree[<<j>>]) > win_rate(cycle.tree[<<cycle.ret>>])
\* C15, as stated: whenever the early exit test succeeds, max2 + remaining
\* < max1 for the two largest aggregate visit counts, so that the runner-up
\* could not overtake the leader with all the remaining iterations.
EarlyExitSound ==
    (exit_probe.pc = "tested" /\ exit_probe.exit) =>
        SecondLargest(exit_probe.result) + exit_probe.rest
            < Largest(exit_probe.result)

\* C15, amended: whenever the early exit test succeeds, max2 + remaining / 2
\* < max1: the leader is strictly ahead and stays ahead as long as the
\* runner-up gains no more than half of the remaining iterations.
EarlyExitHalfSound ==
    (exit_probe.pc = "tested" /\ exit_probe.exit) =>
        LET max1 == Largest(exit_probe.result)
            max2 == SecondLargest(exit_probe.result)
            rest == exit_probe.rest
        IN  /\ max2 < max1
            /\ \A gain \in 0 .. rest : 2 * gain <= rest => max2 + gain < max1

\* an early exit although the remaining iterations would let the runner-up
\* catch up with the leader
EarlyExitHalfSoundWitness ==
    /\ exit_probe.pc = "tested"
    /\ exit_probe.exit
    /\ SecondLargest(exit_probe.result) > 0
    /\ SecondLargest(exit_probe.result) + exit_probe.rest
          >= Largest(exit_probe.result)
\* C16: when the early exit of checkpoint i is evaluated, the iterations
\* done that the test uses, i * N / split, are the turns every thread has
\* completed (the first pass and the chunks so far), the remaining
\* iterations it uses are those the threads would still run, and they are 0
\* at the last checkpoint.
RemainingAccounting ==
    (pc = "chunk" /\ \A w \in Threads : joined[w]) =>
        /\ \A w \in Threads : completed[w] = (i * N) \div split
        /\ remaining(N, thread_num, i, split)
              = (split - i) * (N \div split) * thread_num
        /\ i = split => remaining(N, thread_num, i, split) = 0
\* the simulations counted at node p so far
WinsAt(p) == IF p \in DOMAIN cycle.wins THEN cycle.wins[p] ELSE NoWins

\* C17, as stated: the win_cnt of every node is the number of simulations
\* through the node won by the player to move at the node, less the number
\* won by the other player.
WinCountOfMover ==
    cycle.pc # "idle" =>
        \A p \in DOMAIN cycle.tree :
            cycle.tree[p].win_cnt = WinsAt(p).mover - WinsAt(p).other

\* C17, amended: the win_cnt of every node is the number of simulations
\* through the node won by the player who is not to move at the node (the
\* player whose move led to it), less the number won by the player to move.
WinCountOfOther ==
    cycle.pc # "idle" =>
        \A p \in DOMAIN cycle.tree :
            /\ cycle.tree[p].win_cnt = WinsAt(p).other - WinsAt(p).mover
            /\ cycle.tree[p].total_cnt = WinsAt(p).other + WinsAt(p).mover

WinCountOfOtherWitness ==
    \E p \in DOMAIN cycle.tree :
        /\ p # <<>>
        /\ WinsAt(p).mover >= 2
        /\ WinsAt(p).other = 0
        /\ cycle.tree[p].win_cnt = -2
\* the state right after a back_propagate call: cycle.before is the tree
\* before the call, cycle.path and cycle.winner are its arguments
back_propagated == cycle.pc = "select" /\ Len(cycle.path) > 0

\* C18: a back_propagate call adds 1 to the total_cnt of every node of the
\* path, adds 1 to the win_cnt of a path node when the winner is not the
\* player to move at the node and subtracts 1 otherwise, and leaves alone
\* the set of nodes, the total_cnt and win_cnt of every node off the path
\* and the board, place_pos and children of every node.
BackPropagateEffect ==
    back_propagated =>
        /\ DOMAIN cycle.tree = DOMAIN cycle.before
        /\ \A p \in DOMAIN cycle.tree :
              LET new == cycle.tree[p]
                  old == cycle.before[p]
              IN  /\ new.board = old.board
                  /\ new.place_pos = old.place_pos
                  /\ new.child = old.child
                  /\ IF p \in SeqToSet(cycle.path)
                     THEN /\ new.total_cnt = old.total_cnt + 1
                          /\ new.win_cnt =
                                IF cycle.winner # old.board.who
                                THEN old.win_cnt + 1 ELSE old.win_cnt - 1
                     ELSE /\ new.total_cnt = old.total_cnt
                          /\ new.win_cnt = old.win_cnt

\* a call on a path of three nodes in a tree with a visited node off it
BackPropagateEffectWitness ==
    /\ back_propagated
    /\ Len(cycle.path) >= 3
    /\ \E p \in DOMAIN cycle.tree \ SeqToSet(cycle.path) :
          cycle.tree[p].total_cnt > 0
\* the state right after an expand_from_leaf call: cycle.before is the tree
\* before the call
expanded == cycle.pc = "simulate"

\* the node expand_from_leaf was called on
ExpandedLeaf ==
    IF cycle.path[Len(cycle.path)] \in DOMAIN cycle.before
    THEN cycle.path[Len(cycle.path)]
    ELSE cycle.path[Len(cycle.path) - 1]

\* C19: an expand_from_leaf call on a node with a legal move that is no key
\* of its children adds one node, the child for such a move, with the
\* parent's board after the move, the move as place_pos, no statistics and
\* no children, and returns it; otherwise it changes nothing and returns
\* the node.  In every tree the children of a node are keyed by distinct
\* legal moves of its board, hold the board after their move, and every
\* node but the root is the child of its parent.
ExpansionAddsOneChild ==
    /\ expanded =>
          LET leaf == ExpandedLeaf
              old == cycle.before[leaf]
              last == cycle.path[Len(cycle.path)]
              fresh == LegalMoves(old.board) \ SeqToSet(old.child)
          IN  IF fresh # {}
              THEN \E pos \in fresh :
                      /\ last = Append(leaf, pos)
                      /\ last \notin DOMAIN cycle.before
                      /\ DOMAIN cycle.tree = DOMAIN cycle.before \cup {last}
                      /\ cycle.tree[last] = NewNode(Place(old.board, pos), pos)
                      /\ cycle.tree[last].board # old.board
                      /\ Len(cycle.tree[leaf].child) = Len(old.child) + 1
                      /\ SeqToSet(cycle.tree[leaf].child) = SeqToSet(old.child) \cup {pos}
                      /\ \A p \in DOMAIN cycle.before :
                            cycle.tree[p] = [cycle.before[p] EXCEPT
                                                !.child = cycle.tree[p].child]
                      /\ \A p \in DOMAIN cycle.before \ {leaf} :
                            cycle.tree[p] = cycle.before[p]
              ELSE /\ cycle.tree = cycle.before
                   /\ last = leaf
    /\ cycle.pc # "idle" =>
          \A p \in DOMAIN cycle.tree :
              LET n == cycle.tree[p]
              IN  /\ Cardinality(SeqToSet(n.child)) = Len(n.child)
                  /\ SeqToSet(n.child) \subseteq LegalMoves(n.board)
                  /\ Len(n.child) <= Cardinality(LegalMoves(n.board))
                  /\ \A k \in SeqToSet(n.child) :
                        /\ Append(p, k) \in DOMAIN cycle.tree
                        /\ cycle.tree[Append(p, k)].place_pos = k
                        /\ cycle.tree[Append(p, k)].board = Place(n.board, k)
                  /\ p # <<>> =>
                        /\ Parent(p) \in DOMAIN cycle.tree
                        /\ p[Len(p)] \in SeqToSet(cycle.tree[Parent(p)].child)

\* an expansion of a node below the root that had a child already
ExpansionWitness ==
    /\ expanded
    /\ cycle.tree # cycle.before
    /\ ExpandedLeaf # <<>>
    /\ Len(cycle.before[ExpandedLeaf].child) >= 1

\* an expansion that changes nothing
ExpansionNoOpWitness ==
    /\ expanded
    /\ cycle.tree = cycle.before
    /\ Len(cycle.path) >= 2
\* the state right after a select_root_to_leaf call: cycle.path is the
\* vector returned for cycle.tree
selected == cycle.pc = "expand"

\* the place of key in the iteration order of the children of node n
ChildIndex(n, key) == CHOOSE j \in 1 .. Len(n.child) : n.child[j] = key

\* C20: the vector select_root_to_leaf returns is not empty and starts at
\* the root; every node after the first is a child of the node before it,
\* with a ucb no sibling exceeds and no sibling earlier in iteration order
\* equals; every node before the last has as many children as legal moves,
\* and at least one; the last node is a leaf (its children are not as many
\* as its legal moves, or it has no legal move).
SelectionPath ==
    selected =>
        LET t == cycle.tree
            path == cycle.path
        IN  /\ Len(path) >= 1
            /\ path[1] = <<>>
            /\ \A k \in 1 .. (Len(path) - 1) :
                  LET n == t[path[k]]
                      key == path[k + 1][Len(path[k + 1])]
                  IN  /\ path[k + 1] = Append(path[k], key)
                      /\ key \in SeqToSet(n.child)
                      /\ Cardinality(LegalMoves(n.board)) > 0
                      /\ Len(n.child) = Cardinality(LegalMoves(n.board))
                      /\ \A j \in SeqToSet(n.child) :
                            /\ ucb(t, Append(path[k], j), cycle.c)
                                  <= ucb(t, path[k + 1], cycle.c)
                            /\ ChildIndex(n, j) < ChildIndex(n, key) =>
                                  ucb(t, Append(path[k], j), cycle.c)
                                      < ucb(t, path[k + 1], cycle.c)
            /\ LET n == t[path[Len(path)]]
               IN  \/ Len(n.child) # Cardinality(LegalMoves(n.board))
                   \/ Cardinality(LegalMoves(n.board)) = 0

\* a path of three nodes: the root and one of its children have all their
\* children
SelectionPathWitness ==
    /\ selected
    /\ Len(cycle.path) >= 3

\* a tie between the chosen child of the root and a later sibling
SelectionTieWitness ==
    /\ selected
    /\ Len(cycle.path) >= 2
    /\ \E j \in SeqToSet(cycle.tree[<<>>].child) :
          /\ ChildIndex(cycle.tree[<<>>], j)
                > ChildIndex(cycle.tree[<<>>], cycle.path[2][1])
          /\ ucb(cycle.tree, <<j>>, cycle.c) = ucb(cycle.tree, cycle.path[2], cycle.c)
\* the cells of board b that hold a stone
Stones(b) == {j \in Cells : b.grid[j] # "empty"}

\* C21: simulate_winner returns only at a board on which the player to move
\* has no legal move on any cell, and returns the opponent of that player;
\* the board it ends at keeps every stone of the node's board and adds one
\* stone per turn taken, the players alternating; the node's board (the
\* start of the rollout) is not the board the placements are made on.
RolloutResult ==
    rollout.pc = "returned" =>
        LET final == rollout.r.b
            added == Stones(final) \ Stones(rollout.start)
        IN  /\ LegalMoves(final) = {}
            /\ rollout.winner = Opponent(final.who)
            /\ \A j \in Stones(rollout.start) : final.grid[j] = rollout.start.grid[j]
            /\ final.who = IF Cardinality(added) % 2 = 0
                           THEN rollout.start.who ELSE Opponent(rollout.start.who)
            /\ final \in ReachableBoards

\* a rollout of at least two placements
RolloutResultWitness ==
    /\ rollout.pc = "returned"
    /\ Cardinality(Stones(rollout.r.b) \ Stones(rollout.start)) >= 2
    /\ rollout.winner = "white"
\* C22: a call of take_action with a budget N >= 1 on a board with a legal
\* move for the player to move returns a placement; the default action is
\* returned only when the board has no legal move.
DecideProgress ==
    (pc = "done" /\ N >= 1) =>
        /\ LegalMoves(state) # {} => ret.kind = "place"
        /\ ret = DefaultAction => LegalMoves(state) = {}

\* the same for the budgets that reach a checkpoint
DecideProgressAfterCheckpoint ==
    (pc = "done" /\ split >= 1) =>
        /\ LegalMoves(state) # {} => ret.kind = "place"
        /\ ret = DefaultAction => LegalMoves(state) = {}
\* the states between two turns of the for loop of MCTS
between_cycles == cycle.pc \in {"select", "returned"}

\* C23: between two MCTS turns every node but the root has total_cnt >= 1,
\* and so has its parent; a node below the root whose board has a legal
\* move has total_cnt = 1 + the sum of its children's total_cnt; and every
\* child whose ucb a selection has evaluated, like its parent, had
\* total_cnt >= 1.
EveryChildWarm ==
    /\ between_cycles =>
          \A p \in DOMAIN cycle.tree \ {<<>>} :
              /\ cycle.tree[p].total_cnt >= 1
              /\ cycle.tree[Parent(p)].total_cnt >= 1
              /\ LegalMoves(cycle.tree[p].board) # {} =>
                    cycle.tree[p].total_cnt = 1 + ChildVisits(cycle.tree, p)
    /\ selected =>
          \A k \in 1 .. (Len(cycle.path) - 1) :
              /\ cycle.tree[cycle.path[k]].total_cnt >= 1
              /\ \A j \in SeqToSet(cycle.tree[cycle.path[k]].child) :
                    cycle.tree[Append(cycle.path[k], j)].total_cnt >= 1

\* a node below the root with two visited children, between two turns
EveryChildWarmWitness ==
    /\ between_cycles
    /\ \E p \in DOMAIN cycle.tree \ {<<>>} :
          /\ Len(cycle.tree[p].child) >= 2
          /\ cycle.tree[p].total_cnt = 3

\* the cells legal for the role of the heuristic agent on the board of the
\* call
LegalForRole == {pos \in Cells : test(heur.state, pos, heur.who) = "legal"}

\* C24: heuristic_agent::take_action returns a placement legal for its role
\* on the given board or the default action, and it never reads
\* space[max_index] with max_index = -1: when no cell is legal for its role
\* it returns the default action without that read.
HeuristicTableRead ==
    /\ heur.pc = "returned" =>
          \/ heur.ret = DefaultAction
          \/ /\ heur.ret.kind = "place"
             /\ heur.ret.who = heur.who
             /\ heur.ret.pos \in LegalForRole
    /\ heur.pc # "idle" =>
          \A k \in 1 .. Len(heur.read_at) : heur.read_at[k] # -1
    /\ (heur.pc \in {"read", "fault", "returned"} /\ LegalForRole = {}) =>
          /\ heur.pc = "returned"
          /\ heur.ret = DefaultAction
          /\ heur.read_at = <<>>

\* C24, the part that holds: the value returned is legal for the role or the
\* default action, the default action is returned only without a legal
\* cell, and with a legal cell the read of space is inside the table.
HeuristicReturnLegal ==
    /\ heur.pc = "returned" =>
          /\ \/ /\ heur.ret = DefaultAction
                /\ LegalForRole = {}
             \/ /\ heur.ret.kind = "place"
                /\ heur.ret.who = heur.who
                /\ heur.ret.pos \in LegalForRole
    /\ (heur.pc # "idle" /\ LegalForRole # {}) =>
          /\ heur.pc # "fault"
          /\ \A k \in 1 .. Len(heur.read_at) :
                heur.read_at[k] \in 0 .. (NumCells - 1)

\* a call that read space at the best of several legal cells and returned
\* a placement
HeuristicReturnLegalWitness ==
    /\ heur.pc = "returned"
    /\ heur.read_at # <<>>
    /\ heur.ret.kind = "place"
    /\ Cardinality(LegalForRole) >= 2
====
